---- MODULE Spec2Model ----
(***************************************************************************)
(* CRT-571 card dispenser driver: request framing, the ACK handshake       *)
(* around the serial exchange, and decoding of the reply.                  *)
(* Bytes are integers 0..255; a Go []byte is a sequence of bytes.          *)
(***************************************************************************)
EXTENDS Integers, Sequences, FiniteSets, TLC

(* ------------------------------------------------------------------ *)
(* Protocol constants                                                 *)
(* ------------------------------------------------------------------ *)
CRT571_BUFFER_MAX_LENGTH == 1024
CRT571_STX == 242
CRT571_ETX == 3
CRT571_CMT == 67
CRT571_PMT == 80
CRT571_EMT == 69
CRT571_EMT2 == 78
CRT571_ACK == 6
CRT571_NAK == 21
CRT571_CM_INITIALIZE == 48
CRT571_CM_STATUS_REQUEST == 49

(* ------------------------------------------------------------------ *)
(* Bounds of the checked instance                                     *)
(* ------------------------------------------------------------------ *)
\* longest request payload that is enumerated byte by byte
MaxData == 1
\* longest DATA field of a reply the device sends
MaxReplyData == 2
\* most bytes still to come that are also delivered one at a time
MaxTrickle == 16
\* longest byte sequence handed to the checksum functions on their own
MaxSeq == 3
\* most times the scheduler changes the running goroutine
MaxSwitches == 1

(* ------------------------------------------------------------------ *)
(* Byte arithmetic                                                    *)
(* ------------------------------------------------------------------ *)
Byte == 0..255

RECURSIVE XorBits(_, _, _)
XorBits(a, b, n) ==
    IF n = 0 THEN 0
    ELSE (((a % 2) + (b % 2)) % 2) + 2 * XorBits(a \div 2, b \div 2, n - 1)

\* variant: the bytes are added up instead
Xor_add(a, b) == (a + b) % 256

\* Go's ^ on two bytes
Xor(a, b) == XorBits(a, b, 8)

\* binary.BigEndian.PutUint16(b, uint16(v))
PutUint16(v) == LET w == v % 65536 IN <<w \div 256, w % 256>>

\* binary.BigEndian.Uint16(b)
Uint16(hi, lo) == hi * 256 + lo

\* a[lo:hi] of a sequence, Go indices (0-based, hi exclusive)
Slice(a, lo, hi) == SubSeq(a, lo + 1, hi)

Min(a, b) == IF a < b THEN a ELSE b

(* ------------------------------------------------------------------ *)
(* Checksum                                                           *)
(* ------------------------------------------------------------------ *)
\* the loop of bccCalc over a[i..n-1], bcc threaded through in index order;
\* the range is halved so that the evaluation stays shallow on long frames
RECURSIVE bccLoop(_, _, _, _)
bccLoop(a, i, n, bcc) ==
    IF n - i <= 0 THEN bcc
    ELSE IF n - i = 1 THEN Xor(bcc, a[i + 1])
    ELSE LET m    == i + ((n - i) \div 2)
             left == bccLoop(a, i, m, bcc)
         IN  IF left >= 0 THEN bccLoop(a, m, n, left) ELSE 0

bccCalc(a) == bccLoop(a, 0, Len(a), 0)

bccCheck(bcc, data) == bcc = bccCalc(data)

(* ------------------------------------------------------------------ *)
(* Lookup tables (a missing key of a Go map yields "")                *)
(* ------------------------------------------------------------------ *)
CRT571CardStatus(tbl, b) ==
    CASE tbl = "ST0" /\ b = 48 -> "No Card in CRT-571"
      [] tbl = "ST0" /\ b = 49 -> "One Card in gate"
      [] tbl = "ST0" /\ b = 50 -> "One Card on RF/IC Card Position"
      [] tbl = "ST1" /\ b = 48 -> "No Card in stacker"
      [] tbl = "ST1" /\ b = 49 -> "Few Card in stacker"
      [] tbl = "ST1" /\ b = 50 -> "Enough Cards in card box"
      [] tbl = "ST2" /\ b = 48 -> "Error card bin not full"
      [] tbl = "ST2" /\ b = 49 -> "Error card bin full"
      [] OTHER -> ""

\* keys are the two ASCII characters of the code: "10" is <<49, 48>>
CRT571Errors(c) ==
    CASE c = <<48, 48>> -> "Reception of Undefined Command"
      [] c = <<48, 49>> -> "Command Parameter Error"
      [] c = <<48, 50>> -> "Command Sequence Error"
      [] c = <<48, 51>> -> "Out of Hardware Support Command"
      [] c = <<48, 52>> -> "Command Data Error"
      [] c = <<48, 53>> -> "IC Card Contact Not Release"
      [] c = <<49, 48>> -> "Card Jam"
      [] c = <<49, 50>> -> "sensor error"
      [] c = <<49, 51>> -> "Too Long-Card"
      [] c = <<49, 52>> -> "Too Short-Card"
      [] c = <<49, 54>> -> "Card move manually"
      [] c = <<52, 48>> -> "Move card when recycling"
      [] c = <<52, 49>> -> "Magnent of IC Card Error"
      [] c = <<52, 51>> -> "Disable To Move Card To IC Card Position"
      [] c = <<52, 53>> -> "Manually Move Card"
      [] c = <<53, 48>> -> "Received Card Counter Overflow"
      [] c = <<53, 49>> -> "Motor error"
      [] c = <<54, 48>> -> "Short Circuit of IC Card Supply Power"
      [] c = <<54, 49>> -> "Activiation of Card False"
      [] c = <<54, 50>> -> "Command Out Of IC Card Support"
      [] c = <<54, 53>> -> "Disablity of IC Card"
      [] c = <<54, 54>> -> "Command Out Of IC Current Card Support"
      [] c = <<54, 55>> -> "IC Card Transmittion Error"
      [] c = <<54, 56>> -> "IC Card Transmittion Overtime"
      [] c = <<54, 57>> -> "CPU/SAM Non-Compliance To EMV Standard"
      [] c = <<65, 48>> -> "Empty-Stacker"
      [] c = <<65, 49>> -> "Full-Stacker"
      [] c = <<66, 48>> -> "Not Reset"
      [] OTHER -> ""

(* ------------------------------------------------------------------ *)
(* Request frame                                                      *)
(* ------------------------------------------------------------------ *)
\* variant: the length field holds len(data) only
requestBody_lenOnly(address, cm, pm, data) ==
    <<CRT571_STX, address>> \o PutUint16(Len(data))
        \o <<CRT571_CMT, cm, pm>> \o data \o <<CRT571_ETX>>

\* variant: the length field counts ETX as well
requestBody_lenETX(address, cm, pm, data) ==
    <<CRT571_STX, address>> \o PutUint16(Len(data) + 4)
        \o <<CRT571_CMT, cm, pm>> \o data \o <<CRT571_ETX>>

\* the bytes.Buffer of request before the checksum is appended
requestBody(address, cm, pm, data) ==
    <<CRT571_STX, address>> \o PutUint16(Len(data) + 3)
        \o <<CRT571_CMT, cm, pm>> \o data \o <<CRT571_ETX>>

\* variant: a second STX follows ETX and the checksum byte is a fixed 0x99
requestFrame_fixedBcc(address, cm, pm, data) ==
    LET body == requestBody(address, cm, pm, data)
    IN  body \o <<CRT571_STX, 153>>

\* b.Bytes() after b.WriteByte(bcc)
requestFrame(address, cm, pm, data) ==
    LET body == requestBody(address, cm, pm, data)
    IN  Append(body, bccCalc(body))

\* crt571.go: bccCalculate returns the same byte for every buffer
bccCalculate(buffer) == 153

\* crt571.go: b.Bytes() of MakeRequest as it is given to Exchange, which
\* writes it to the port
MakeRequestFrame(address, cm, pm, data) ==
    LET body == <<CRT571_STX, address>> \o PutUint16(Len(data))
                    \o <<CRT571_CMT, cm, pm>> \o data
                    \o <<CRT571_ETX, CRT571_STX>>
    IN  Append(body, bccCalculate(body))

(* ------------------------------------------------------------------ *)
(* The exchange buffer                                                *)
(* ------------------------------------------------------------------ *)
\* buf := make([]byte, CRT571_BUFFER_MAX_LENGTH) is zero filled.  mem is the
\* prefix of the backing array that has been written, every byte behind it
\* is still 0; off is the number of bytes cut off the front by buf = buf[1:].
BufLen(o) == CRT571_BUFFER_MAX_LENGTH - o

\* buf[j]
BufAt(m, o, j) == IF o + j < Len(m) THEN m[o + j + 1] ELSE 0

\* buf[lo:hi]
BufSlice(m, o, lo, hi) == [k \in 1..(hi - lo) |-> BufAt(m, o, lo + k - 1)]

\* the transport stores chunk c at buf[at:] (off is 0 whenever read runs)
Store(m, at, c) ==
    LET pad == [k \in 1..(at - Len(m)) |-> 0]
    IN  SubSeq(m \o pad, 1, at) \o c \o SubSeq(m, at + Len(c) + 1, Len(m))

(* ------------------------------------------------------------------ *)
(* Results and errors                                                 *)
(* ------------------------------------------------------------------ *)
NilResponse == [nil |-> TRUE]

NoErr == [kind |-> "nil", msg |-> <<>>]

TransportErr == [kind |-> "transport", msg |-> <<"port">>]

NoAckErr == [kind |-> "errors.New", msg |-> <<"ACK is absent">>]

TooLargeErr ==
    [kind |-> "errors.New", msg |-> <<"[ERROR] Exceed max packet size for CRT-571">>]

HexDigit(d) ==
    CASE d = 0 -> "0" [] d = 1 -> "1" [] d = 2 -> "2" [] d = 3 -> "3"
      [] d = 4 -> "4" [] d = 5 -> "5" [] d = 6 -> "6" [] d = 7 -> "7"
      [] d = 8 -> "8" [] d = 9 -> "9" [] d = 10 -> "a" [] d = 11 -> "b"
      [] d = 12 -> "c" [] d = 13 -> "d" [] d = 14 -> "e" [] OTHER -> "f"

\* fmt.Sprintf("%x", byte): lower case, no leading zero
FmtHex(v) ==
    IF v < 16 THEN <<HexDigit(v)>> ELSE <<HexDigit(v \div 16), HexDigit(v % 16)>>

\* variant: the message does not show the type byte
UnknownErr_plain(t) ==
    [kind |-> "errors.New",
     msg  |-> <<"[ERROR] Unknow data response status [">> \o <<"]">>]

UnknownErr(t) ==
    [kind |-> "errors.New",
     msg  |-> <<"[ERROR] Unknow data response status [">> \o FmtHex(t) \o <<"]">>]

\* response as request holds it after DataLen and Type are set
baseResponse(m, o) ==
    [nil |-> FALSE, Type |-> BufAt(m, o, 4), CardStatus |-> <<>>,
     ST0Message |-> "", ST1Message |-> "", ST2Message |-> "",
     ErrorCode |-> <<>>, ErrorMessage |-> "",
     DataLen |-> Uint16(BufAt(m, o, 2), BufAt(m, o, 3)), Data |-> <<>>]

\* a slice expression buf[lo:hi] panics unless lo <= hi <= cap(buf)
sliceOk(o, lo, hi) == lo <= hi /\ hi <= BufLen(o)

\* variant: the status bytes are taken directly after the type byte
decodePositive_bare(m, o) ==
    LET datalen == Uint16(BufAt(m, o, 2), BufAt(m, o, 3))
    IN  IF ~sliceOk(o, 8, 8 + datalen - 6)
        THEN [panic |-> TRUE, response |-> NilResponse, err |-> NoErr]
        ELSE [panic |-> FALSE,
              response |-> [baseResponse(m, o) EXCEPT
                  !.CardStatus = BufSlice(m, o, 5, 8),
                  !.ST0Message = CRT571CardStatus("ST0", BufAt(m, o, 5)),
                  !.ST1Message = CRT571CardStatus("ST1", BufAt(m, o, 6)),
                  !.ST2Message = CRT571CardStatus("ST2", BufAt(m, o, 7)),
                  !.Data = BufSlice(m, o, 8, 8 + datalen - 6)],
              err |-> NoErr]

\* variant: the payload is cut datalen bytes long
decodePositive_wide(m, o) ==
    LET datalen == Uint16(BufAt(m, o, 2), BufAt(m, o, 3))
    IN  IF ~sliceOk(o, 10, 10 + datalen)
        THEN [panic |-> TRUE, response |-> NilResponse, err |-> NoErr]
        ELSE [panic |-> FALSE,
              response |-> [baseResponse(m, o) EXCEPT
                  !.CardStatus = BufSlice(m, o, 7, 10),
                  !.ST0Message = CRT571CardStatus("ST0", BufAt(m, o, 7)),
                  !.ST1Message = CRT571CardStatus("ST1", BufAt(m, o, 8)),
                  !.ST2Message = CRT571CardStatus("ST2", BufAt(m, o, 9)),
                  !.Data = BufSlice(m, o, 10, 10 + datalen)],
              err |-> NoErr]

\* case CRT571_PMT of request
decodePositive(m, o) ==
    LET datalen == Uint16(BufAt(m, o, 2), BufAt(m, o, 3))
    IN  IF ~sliceOk(o, 10, 10 + datalen - 6)
        THEN [panic |-> TRUE, response |-> NilResponse, err |-> NoErr]
        ELSE [panic |-> FALSE,
              response |-> [baseResponse(m, o) EXCEPT
                  !.CardStatus = BufSlice(m, o, 7, 10),
                  !.ST0Message = CRT571CardStatus("ST0", BufAt(m, o, 7)),
                  !.ST1Message = CRT571CardStatus("ST1", BufAt(m, o, 8)),
                  !.ST2Message = CRT571CardStatus("ST2", BufAt(m, o, 9)),
                  !.Data = BufSlice(m, o, 10, 10 + datalen - 6)],
              err |-> NoErr]

\* variant: the code is looked up one byte further on
decodeNegative_late(m, o) ==
    LET datalen == Uint16(BufAt(m, o, 2), BufAt(m, o, 3))
        msg     == CRT571Errors(BufSlice(m, o, 7, 9))
    IN  IF ~sliceOk(o, 9, 9 + datalen - 5)
        THEN [panic |-> TRUE, response |-> NilResponse, err |-> NoErr]
        ELSE [panic |-> FALSE,
              response |-> [baseResponse(m, o) EXCEPT
                  !.Data = BufSlice(m, o, 9, 9 + datalen - 5),
                  !.ErrorCode = BufSlice(m, o, 6, 8),
                  !.ErrorMessage = msg],
              err |-> [kind |-> "errors.New", msg |-> <<msg>>]]

\* case CRT571_EMT, CRT571_EMT2 of request
decodeNegative(m, o) ==
    LET datalen == Uint16(BufAt(m, o, 2), BufAt(m, o, 3))
        msg     == CRT571Errors(BufSlice(m, o, 6, 8))
    IN  IF ~sliceOk(o, 9, 9 + datalen - 5)
        THEN [panic |-> TRUE, response |-> NilResponse, err |-> NoErr]
        ELSE [panic |-> FALSE,
              response |-> [baseResponse(m, o) EXCEPT
                  !.Data = BufSlice(m, o, 9, 9 + datalen - 5),
                  !.ErrorCode = BufSlice(m, o, 6, 8),
                  !.ErrorMessage = msg],
              err |-> [kind |-> "errors.New", msg |-> <<msg>>]]

\* variant: only CRT571_EMT is taken as a negative response
decode_emtOnly(m, o) ==
    LET type == BufAt(m, o, 4)
    IN  IF type = CRT571_PMT THEN decodePositive(m, o)
        ELSE IF type = CRT571_EMT THEN decodeNegative(m, o)
        ELSE [panic |-> FALSE, response |-> baseResponse(m, o),
              err |-> UnknownErr(type)]

\* the decoding part of request, applied to the buffer exchange returned
decode(m, o) ==
    LET type == BufAt(m, o, 4)
    IN  IF type = CRT571_PMT THEN decodePositive(m, o)
        ELSE IF type = CRT571_EMT \/ type = CRT571_EMT2 THEN decodeNegative(m, o)
        ELSE [panic |-> FALSE, response |-> baseResponse(m, o),
              err |-> UnknownErr(type)]

(* ------------------------------------------------------------------ *)
(* The functions the application calls                                *)
(* ------------------------------------------------------------------ *)
\* the functions of the older file, whose request returns the status bytes,
\* the data and the error
Part001 == {"Initialization", "StatusRequest"}

\* part_001: the error of request on a response of unknown type; % x of a
\* byte puts a space before the digits
UnknownErr001(t) ==
    [kind |-> "errors.New",
     msg  |-> <<"[ERROR] Unknow data response status [", " ">>
                  \o FmtHex(t) \o <<"]">>]

\* part_001: the decoding part of request; the log line of each case is
\* evaluated before the return
decode001(m, o) ==
    LET type    == BufAt(m, o, 4)
        datalen == Uint16(BufAt(m, o, 2), BufAt(m, o, 3))
    IN  IF type = CRT571_PMT
        THEN IF ~sliceOk(o, 10, 10 + datalen - 6) \/ ~sliceOk(o, 10, 10 + datalen)
             THEN [panic |-> TRUE, response |-> NilResponse, err |-> NoErr]
             ELSE [panic |-> FALSE,
                   response |-> [nil |-> FALSE,
                                 CardStatus |-> BufSlice(m, o, 7, 10),
                                 Data |-> BufSlice(m, o, 10, 10 + datalen)],
                   err |-> NoErr]
        ELSE IF type = CRT571_EMT
        THEN IF ~sliceOk(o, 9, 9 + datalen - 5) \/ ~sliceOk(o, 9, 9 + datalen)
             THEN [panic |-> TRUE, response |-> NilResponse, err |-> NoErr]
             ELSE [panic |-> FALSE,
                   response |-> [nil |-> FALSE,
                                 CardStatus |-> <<>>,
                                 Data |-> BufSlice(m, o, 9, 9 + datalen)],
                   err |-> [kind |-> "errors.New",
                            msg |-> <<CRT571Errors(BufSlice(m, o, 6, 8))>>]]
        ELSE [panic |-> FALSE, response |-> NilResponse,
              err |-> UnknownErr001(type)]

\* nothing has been returned to the application yet
NotReturned == [returned |-> FALSE, res |-> NilResponse, err |-> NoErr]

\* part_000: Command hands on what request returned
Command(res, e) ==
    IF e # NoErr THEN [returned |-> TRUE, res |-> res, err |-> e]
    ELSE [returned |-> TRUE, res |-> res, err |-> NoErr]

\* part_001: Initialization calls request and returns nil
Initialization(res, e) ==
    [returned |-> TRUE, res |-> NilResponse, err |-> NoErr]

\* part_001: StatusRequest calls request and returns nil
StatusRequest(res, e) ==
    [returned |-> TRUE, res |-> NilResponse, err |-> NoErr]

\* what the called function returns once request has returned res and e
returns(c, p, res, e) ==
    IF p # "done" THEN NotReturned
    ELSE CASE c = "Command" -> Command(res, e)
           [] c = "Initialization" -> Initialization(res, e)
           [] c = "StatusRequest" -> StatusRequest(res, e)
           [] OTHER -> [returned |-> TRUE, res |-> res, err |-> e]

\* CRT571Response.String: the format chosen by Type and the values put into
\* it; a nil slice or an empty string prints as nothing
String(r) ==
    IF r.Type = CRT571_PMT
    THEN [format |-> "CRT-571 positive response: card status:['%s','%s','%s'], data:[%s]",
          texts  |-> <<r.ST0Message, r.ST1Message, r.ST2Message>>,
          bytes  |-> <<r.Data>>]
    ELSE IF r.Type = CRT571_EMT
    THEN [format |-> "CRT-571 error response: %s(%s), data:[%s]",
          texts  |-> <<r.ErrorMessage>>,
          bytes  |-> <<r.ErrorCode, r.Data>>]
    ELSE [format |-> "Unexpected response type", texts |-> <<>>, bytes |-> <<>>]

\* variant: a frame that fills the buffer exactly is refused too
tooLarge_atLimit(frame) == Len(frame) >= CRT571_BUFFER_MAX_LENGTH

\* variant: the payload instead of the frame is held against the limit
tooLarge_payload(frame) == Len(frame) - 9 > CRT571_BUFFER_MAX_LENGTH

\* the size check of request on the finished frame
tooLarge(frame) == Len(frame) > CRT571_BUFFER_MAX_LENGTH

\* variant: only an explicit NAK counts as a missing ACK
ackAbsent_nakOnly(m) == BufAt(m, 0, 0) = CRT571_NAK

\* the test exchange makes on the first byte of buf after the ACK read
ackAbsent(m) == BufAt(m, 0, 0) # CRT571_ACK

\* the checksum check of exchange on the reply buf[:n], as it is logged
checked(m, o, n) ==
    IF bccCheck(BufAt(m, o, n - 1), BufSlice(m, o, 0, n - 1)) THEN "ok" ELSE "fail"

\* variant: a mismatch ends the exchange
afterCheck_strict(verdict) == IF verdict = "ok" THEN "write_ack" ELSE "done"

\* where exchange goes on after the check: a mismatch is only logged
afterCheck(verdict) == "write_ack"

\* variant: the frame is sent once more when the write failed
writeFrame_again(history, frame, ok) ==
    LET once == Append(history, [op |-> "write", data |-> frame, ok |-> ok])
    IN  IF ok THEN once
        ELSE Append(once, [op |-> "write", data |-> frame, ok |-> FALSE])

\* the port after exchange has written the request frame
writeFrame(history, frame, ok) ==
    Append(history, [op |-> "write", data |-> frame, ok |-> ok])

\* variant: the token is written again when the write failed
writeACK_again(history, ok) ==
    LET once == Append(history, [op |-> "write", data |-> <<CRT571_ACK>>, ok |-> ok])
    IN  IF ok THEN once
        ELSE Append(once, [op |-> "write", data |-> <<CRT571_ACK>>, ok |-> TRUE])

\* the port after exchange has written the ACK byte
writeACK(history, ok) ==
    Append(history, [op |-> "write", data |-> <<CRT571_ACK>>, ok |-> ok])

\* variant: the reply is decoded although the write of the ACK failed
afterACK_lenient(ok, decoded) == decoded

\* how the call ends after the write of the ACK: exchange returns nil and the
\* error when the write failed, and request hands them on; otherwise request
\* decodes the buffer
afterACK(ok, decoded) ==
    IF ok THEN decoded
    ELSE [panic |-> FALSE, response |-> NilResponse, err |-> TransportErr]

(* ------------------------------------------------------------------ *)
(* The transport                                                      *)
(* ------------------------------------------------------------------ *)
\* what one port.Read(buf[i:]) can return when w is still to come from the
\* device and the slice has room for space bytes: n bytes stored and the
\* error.  A timeout is reported as io.EOF.  The serial library is not part
\* of the repository: io.EOF may come with the last bytes, as io.Reader
\* allows, or with none, as a read on a file descriptor does; a read into
\* an empty slice returns 0 bytes and no error.  The bytes come all at once
\* or, when no more than MaxTrickle are still to come, one at a time.
ReadResults(w, space) ==
    LET all   == Min(Len(w), space)
        sizes == IF Len(w) <= MaxTrickle THEN {1, all} ELSE {all}
    IN  {[n |-> k, err |-> "nil"] : k \in sizes \cap (1..all)}
          \cup (IF space = 0 THEN {[n |-> 0, err |-> "nil"]} ELSE {})
          \cup {[n |-> k, err |-> "EOF"] : k \in {0, all}}
          \cup {[n |-> 0, err |-> "error"]}

\* the history of the port after one port.Read that stored the bytes got; a
\* read into the empty slice of a full buffer that brings nothing and reports
\* nothing is not recorded, so that the loop of read, turning on it, stays in
\* the same state
portRead(history, r, got) ==
    IF r.n = 0 /\ r.err = "nil" THEN history
    ELSE Append(history,
                [op |-> "read", n |-> r.n, err |-> r.err, data |-> got])

(* ------------------------------------------------------------------ *)
(* Inputs of the checked instance                                     *)
(* ------------------------------------------------------------------ *)
Addresses == {0, 1}

Commands == {CRT571_CM_INITIALIZE, CRT571_CM_STATUS_REQUEST}

Parameters == {48, 49}

\* request payloads: every short one over two byte values, and long ones of
\* one fill byte around the sizes at which the frame reaches the buffer size
ShortPayloads ==
    UNION {[1..k -> {65, 242}] : k \in 0..MaxData}

LongPayloads ==
    {[k \in 1..n |-> 65] :
        n \in {CRT571_BUFFER_MAX_LENGTH - 10, CRT571_BUFFER_MAX_LENGTH - 9,
               CRT571_BUFFER_MAX_LENGTH - 8, CRT571_BUFFER_MAX_LENGTH - 3,
               CRT571_BUFFER_MAX_LENGTH - 2}}

Requests ==
    [cm : Commands, pm : Parameters, data : ShortPayloads]
        \cup [cm : {CRT571_CM_STATUS_REQUEST}, pm : {48}, data : LongPayloads]

PlainRequest == [cm |-> CRT571_CM_STATUS_REQUEST, pm |-> 48, data |-> <<>>]

\* a frame as the device puts it on the wire: header, declared length, type
\* byte, the bytes after it, ETX and the checksum (flip # 0 corrupts it)
ReplyFrame(type, declared, rest, flip) ==
    LET pre == <<CRT571_STX, 0>> \o PutUint16(declared) \o <<type>>
                   \o rest \o <<CRT571_ETX>>
    IN  Append(pre, Xor(bccCalc(pre), flip))

ReplyData == {[k \in 1..n |-> 64 + k] : n \in 0..MaxReplyData}

Statuses == {<<50, 50, 48>>, <<48, 49, 49>>, <<57, 48, 50>>}

\* positive replies, the command and parameter echoed after the type byte
PositiveFrames ==
    {ReplyFrame(CRT571_PMT, 6 + Len(d), <<49, 48>> \o st \o d, flip) :
        st \in Statuses, d \in ReplyData, flip \in {0, 1}}

\* positive replies with the status bytes directly after the type byte
BarePositiveFrames ==
    {ReplyFrame(CRT571_PMT, 6 + Len(d), st \o d, 0) :
        st \in Statuses, d \in ReplyData}

\* negative replies: type, command, error code, parameter, data
NegativeFrames ==
    {ReplyFrame(t, 5 + Len(d), <<49>> \o code \o <<48>> \o d, flip) :
        t \in {CRT571_EMT, CRT571_EMT2}, code \in {<<49, 48>>, <<57, 57>>},
        d \in ReplyData, flip \in {0, 1}}

\* replies of a type that is neither positive nor negative
UnknownFrames ==
    {ReplyFrame(t, n, <<49, 48, 50, 50, 48>>, 0) :
        t \in {0, CRT571_CMT}, n \in {0, 6, 2000}}

\* replies whose declared length does not fit the frame
MisdeclaredFrames ==
    {ReplyFrame(t, n, <<49, 48, 50, 50, 48>>, 0) :
        t \in {CRT571_PMT, CRT571_EMT}, n \in {0, 4, 5, 8, 1020, 1021, 2000}}

\* a positive reply of one byte more than the buffer holds
OverlongFrames ==
    {ReplyFrame(CRT571_PMT, CRT571_BUFFER_MAX_LENGTH - 5,
                <<49, 48, 50, 50, 48>>
                    \o [k \in 1..(CRT571_BUFFER_MAX_LENGTH - 11) |-> 65], 0)}

Frames ==
    PositiveFrames \cup BarePositiveFrames \cup NegativeFrames
        \cup UnknownFrames \cup MisdeclaredFrames

\* what the device sends after a request: nothing, or a first token alone or
\* followed by a frame or by the beginning of one
Wires ==
    {<<>>} \cup
    {tok \o f : tok \in {<<CRT571_ACK>>, <<CRT571_NAK>>, <<>>}, f \in Frames}
    \cup {<<CRT571_ACK>> \o Slice(f, 0, k) :
            f \in {ReplyFrame(CRT571_PMT, 7, <<49, 48, 50, 50, 48, 65>>, 0),
                   ReplyFrame(CRT571_EMT, 5, <<49, 49, 48, 48>>, 0)},
            k \in {0, 1, 4, 6, 9}}
    \cup {<<CRT571_NAK>>}
    \cup {<<CRT571_ACK>> \o f : f \in OverlongFrames}

\* the ACK and a positive reply without data
PlainAnswer ==
    <<CRT571_ACK>> \o ReplyFrame(CRT571_PMT, 6, <<49, 48, 50, 50, 48>>, 0)

PlainWires == {<<>>, <<CRT571_NAK>>, PlainAnswer}

\* a request together with what the device will answer
Inputs ==
    (Requests \X PlainWires) \cup ({PlainRequest} \X Wires)

\* what the device answers to the calls made through Command, Initialization
\* and StatusRequest
FacadeWires ==
    {<<>>, <<CRT571_NAK>>, <<CRT571_ACK>>}
    \cup {<<CRT571_ACK>> \o f :
            f \in {ReplyFrame(CRT571_PMT, 7, <<49, 48, 50, 50, 48, 65>>, 0),
                   ReplyFrame(CRT571_PMT, 0, <<49, 48, 50, 50, 48>>, 0),
                   ReplyFrame(CRT571_EMT, 5, <<49, 49, 48, 48>>, 0),
                   ReplyFrame(CRT571_EMT2, 5, <<49, 49, 48, 48>>, 0),
                   ReplyFrame(CRT571_CMT, 6, <<49, 48, 50, 50, 48>>, 0)}}

\* no second goroutine, and no byte sequence for the checksum functions
NoOther == [pc |-> "absent"]

NoCalc == [of |-> <<>>, bcc |-> 0, whole |-> 0, check |-> FALSE, done |-> FALSE]

\* the requests and answers of a call: Command, Initialization and
\* StatusRequest pass no data, the last two fix the command
InputsOf(c, o) ==
    IF o # NoOther THEN {PlainRequest} \X {<<CRT571_NAK>>, PlainAnswer}
    ELSE CASE c = "Command" ->
                [cm : Commands, pm : Parameters, data : {<<>>}] \X FacadeWires
           [] c = "Initialization" ->
                [cm : {CRT571_CM_INITIALIZE}, pm : Parameters, data : {<<>>}]
                    \X FacadeWires
           [] c = "StatusRequest" ->
                [cm : {CRT571_CM_STATUS_REQUEST}, pm : Parameters, data : {<<>>}]
                    \X FacadeWires
           [] OTHER -> Inputs

(* ------------------------------------------------------------------ *)
(* State                                                              *)
(* ------------------------------------------------------------------ *)
VARIABLES
    pc,        \* where the call of request stands
    address,   \* service.address
    cm,        \* request: cm
    pm,        \* request: pm
    data,      \* request: data
    b,         \* request: b.Bytes()
    wire,      \* bytes the device has still to deliver
    mem,       \* exchange: backing array of buf (written prefix)
    off,       \* exchange: bytes cut off the front of buf
    i,         \* read: i
    len,       \* exchange: len as set by read (the counts of Write are only logged)
    bccOk,     \* outcome of bccCheck as logged ("none" before the check)
    response,  \* request: returned *CRT571Response
    err,       \* request: returned error
    ops,       \* history of the calls made on the port
    caller,    \* the function the application has called
    ret,       \* what that function has returned to the application
    other,     \* a second goroutine using the service: its call, set aside
    calc       \* a byte sequence and what bccCalc and bccCheck make of it

vars == <<pc, address, cm, pm, data, b, wire, mem, off, i, len, bccOk,
          response, err, ops, caller, ret, other, calc>>

\* the call of a goroutine before it has begun
IdleCall ==
    /\ pc = "idle"
    /\ cm = 0 /\ pm = 0 /\ data = <<>> /\ b = <<>>
    /\ mem = <<>> /\ off = 0 /\ i = 0 /\ len = 0
    /\ bccOk = "none"
    /\ response = NilResponse
    /\ err = NoErr
    /\ ret = NotReturned

\* part_000: one goroutine calls request or Command
Init ==
    /\ IdleCall
    /\ address \in Addresses
    /\ wire = <<>>
    /\ ops = <<>>
    /\ caller \in {"request", "Command"}
    /\ other = NoOther
    /\ calc = NoCalc

(* ------------------------------------------------------------------ *)
(* Steps of one call of request                                       *)
(* ------------------------------------------------------------------ *)
\* request up to the call of exchange: build the frame, refuse it when it is
\* longer than the buffer
request ==
    /\ pc = "idle"
    /\ \E in \in InputsOf(caller, other) :
         LET frame == requestFrame(address, in[1].cm, in[1].pm, in[1].data)
         IN  /\ cm' = in[1].cm /\ pm' = in[1].pm /\ data' = in[1].data
             /\ wire' = wire \o in[2]
             /\ b' = frame
             /\ IF tooLarge(frame)
                THEN /\ pc' = "done"
                     /\ response' = NilResponse
                     /\ err' = TooLargeErr
                ELSE /\ pc' = "write"
                     /\ UNCHANGED <<response, err>>
    /\ ret' = returns(caller, pc', response', err')
    /\ UNCHANGED <<address, mem, off, i, len, bccOk, ops, caller, other, calc>>

\* exchange: buf is allocated and the frame is written to the port
exchange_write ==
    /\ pc = "write"
    /\ \E ok \in BOOLEAN :
         /\ ops' = writeFrame(ops, b, ok)
         /\ IF ok
            THEN /\ pc' = "read_ack"
                 /\ UNCHANGED <<response, err>>
            ELSE /\ pc' = "done"
                 /\ response' = NilResponse
                 /\ err' = TransportErr
    /\ mem' = <<>> /\ off' = 0 /\ i' = 0
    /\ ret' = returns(caller, pc', response', err')
    /\ UNCHANGED <<address, cm, pm, data, b, wire, len, bccOk, caller, other, calc>>

\* one port.Read of the loop of read while exchange waits for the ACK, and,
\* when the loop ends, exchange up to its next call on the port
read_ack ==
    /\ pc = "read_ack"
    /\ \E r \in ReadResults(wire, BufLen(0) - i) :
         LET m2 == Store(mem, i, Slice(wire, 0, r.n))
         IN  /\ mem' = m2
             /\ wire' = Slice(wire, r.n, Len(wire))
             /\ ops' = portRead(ops, r, Slice(wire, 0, r.n))
             /\ CASE r.err = "nil" ->
                       /\ i' = i + r.n
                       /\ UNCHANGED <<pc, off, len, bccOk, response, err>>
                  [] r.err = "error" ->
                       /\ pc' = "done"
                       /\ response' = NilResponse
                       /\ err' = TransportErr
                       /\ UNCHANGED <<i, off, len, bccOk>>
                  [] r.err = "EOF" ->
                       IF ackAbsent(m2)
                       THEN /\ pc' = "done"
                            /\ len' = i
                            /\ response' = NilResponse
                            /\ err' = NoAckErr
                            /\ UNCHANGED <<i, off, bccOk>>
                       ELSE IF i > 1
                       THEN /\ off' = 1
                            /\ len' = i - 1
                            /\ bccOk' = checked(m2, 1, i - 1)
                            /\ pc' = afterCheck(checked(m2, 1, i - 1))
                            /\ UNCHANGED <<i, response, err>>
                       ELSE /\ len' = i
                            /\ i' = 0
                            /\ pc' = "read_reply"
                            /\ UNCHANGED <<off, bccOk, response, err>>
    /\ ret' = returns(caller, pc', response', err')
    /\ UNCHANGED <<address, cm, pm, data, b, caller, other, calc>>

\* one port.Read of the loop of read while exchange waits for the reply, and,
\* when the loop ends, the checksum check; buf[len-1] with len = 0 panics
read_reply ==
    /\ pc = "read_reply"
    /\ \E r \in ReadResults(wire, BufLen(0) - i) :
         LET m2 == Store(mem, i, Slice(wire, 0, r.n))
         IN  /\ mem' = m2
             /\ wire' = Slice(wire, r.n, Len(wire))
             /\ ops' = portRead(ops, r, Slice(wire, 0, r.n))
             /\ CASE r.err = "nil" ->
                       /\ i' = i + r.n
                       /\ UNCHANGED <<pc, len, bccOk, response, err>>
                  [] r.err = "error" ->
                       /\ pc' = "done"
                       /\ response' = NilResponse
                       /\ err' = TransportErr
                       /\ UNCHANGED <<i, len, bccOk>>
                  [] r.err = "EOF" ->
                       /\ len' = i
                       /\ IF i = 0
                          THEN /\ pc' = "panic"
                               /\ UNCHANGED <<i, bccOk, response, err>>
                          ELSE /\ bccOk' = checked(m2, 0, i)
                               /\ pc' = afterCheck(checked(m2, 0, i))
                               /\ UNCHANGED <<i, response, err>>
    /\ ret' = returns(caller, pc', response', err')
    /\ UNCHANGED <<address, cm, pm, data, b, off, caller, other, calc>>

\* exchange writes the ACK and returns buf; request decodes it and returns
exchange_ack ==
    /\ pc = "write_ack"
    /\ \E ok \in BOOLEAN :
         /\ ops' = writeACK(ops, ok)
         /\ LET d == afterACK(ok, IF caller \in Part001 THEN decode001(mem, off)
                                  ELSE decode(mem, off))
            IN  /\ pc' = IF d.panic THEN "panic" ELSE "done"
                /\ response' = d.response
                /\ err' = d.err
    /\ ret' = returns(caller, pc', response', err')
    /\ UNCHANGED <<address, cm, pm, data, b, wire, mem, off, i, len, bccOk, caller, other, calc>>

\* part_001: one goroutine calls Initialization or StatusRequest
Init001 ==
    /\ IdleCall
    /\ address \in Addresses
    /\ wire = <<>>
    /\ ops = <<>>
    /\ caller \in Part001
    /\ other = NoOther
    /\ calc = NoCalc

Next ==
    \/ request
    \/ exchange_write
    \/ read_ack
    \/ read_reply
    \/ exchange_ack

Spec == Init /\ [][Next]_vars

Spec001 == Init001 /\ [][Next]_vars

\* the call of the running goroutine, as it is set aside when another runs
Call ==
    [pc |-> pc, cm |-> cm, pm |-> pm, data |-> data, b |-> b, mem |-> mem,
     off |-> off, i |-> i, len |-> len, bccOk |-> bccOk,
     response |-> response, err |-> err, ret |-> ret]

\* part_000: two goroutines call Command on the same service; CRT571Service
\* has no lock, so both calls use the port as they come to run
InitTwo ==
    /\ IdleCall
    /\ address \in Addresses
    /\ wire = <<>>
    /\ ops = <<>>
    /\ caller = "Command"
    /\ other = [call |-> Call, switches |-> 0, pc |-> "idle"]
    /\ calc = NoCalc

\* the scheduler sets the running goroutine aside and lets the other run;
\* both work on the same port
yield ==
    /\ other # NoOther
    /\ other.switches < MaxSwitches
    /\ pc' = other.call.pc /\ cm' = other.call.cm /\ pm' = other.call.pm
    /\ data' = other.call.data /\ b' = other.call.b
    /\ mem' = other.call.mem /\ off' = other.call.off
    /\ i' = other.call.i /\ len' = other.call.len
    /\ bccOk' = other.call.bccOk
    /\ response' = other.call.response /\ err' = other.call.err
    /\ ret' = other.call.ret
    /\ other' = [call |-> Call, switches |-> other.switches + 1, pc |-> pc]
    /\ UNCHANGED <<address, wire, ops, caller, calc>>

\* byte sequences for the checksum functions, over bytes with the lowest
\* and the highest bit set and clear
BccBytes == {0, 1, 3, 128, 255}

ByteSeqs == UNION {[1..n -> BccBytes] : n \in 0..MaxSeq}

\* a byte sequence is given to bccCalc and bccCheck, no call of request
InitBcc ==
    /\ IdleCall
    /\ address = 0
    /\ wire = <<>>
    /\ ops = <<>>
    /\ caller = "bccCalc"
    /\ other = NoOther
    /\ calc \in {[NoCalc EXCEPT !.of = B] : B \in ByteSeqs}

\* bccCalc of the sequence, bccCalc of the sequence with that byte appended,
\* and bccCheck of that byte against the sequence
bcc_apply ==
    /\ ~calc.done
    /\ LET bcc == bccCalc(calc.of)
       IN  calc' = [of    |-> calc.of,
                    bcc   |-> bcc,
                    whole |-> bccCalc(Append(calc.of, bcc)),
                    check |-> bccCheck(bcc, calc.of),
                    done  |-> TRUE]
    /\ UNCHANGED <<pc, address, cm, pm, data, b, wire, mem, off, i, len,
                   bccOk, response, err, ops, caller, ret, other>>

SpecBcc == InitBcc /\ [][bcc_apply]_vars

NextTwo ==
    \/ Next
    \/ yield

SpecTwo == InitTwo /\ [][NextTwo]_vars

(* ------------------------------------------------------------------ *)
(* Properties                                                         *)
(* ------------------------------------------------------------------ *)
\* XOR of the bytes of s, bit by bit: bit k of the result is the parity of
\* the number of bytes that have bit k set
XorAll(s) ==
    LET bit(k) == Cardinality({j \in 1..Len(s) : (s[j] \div (2 ^ k)) % 2 = 1}) % 2
    IN  bit(0) + 2 * bit(1) + 4 * bit(2) + 8 * bit(3)
          + 16 * bit(4) + 32 * bit(5) + 64 * bit(6) + 128 * bit(7)

\* the request frame has been handed to the port
FrameWritten == Len(ops) >= 1 /\ ops[1].op = "write"

\* the bytes of that write
Written == ops[1].data

\* C1: the bytes written for a request are STX(0xF2), the address, the two
\* bytes of len(payload)+3 in big-endian order, CMT(0x43), the command, the
\* parameter, the payload in order, ETX(0x03) and one last byte that is the
\* XOR of all the bytes before it.
C1_RequestFrameBytes ==
    FrameWritten =>
        LET f == Written
            n == Len(data)
        IN  /\ Len(f) = n + 9
            /\ f[1] = 242
            /\ f[2] = address
            /\ f[3] = (n + 3) \div 256
            /\ f[4] = (n + 3) % 256
            /\ f[5] = 67
            /\ f[6] = cm
            /\ f[7] = pm
            /\ \A j \in 1..n : f[7 + j] = data[j]
            /\ f[n + 8] = 3
            /\ f[n + 9] = XorAll(SubSeq(f, 1, n + 8))

C1_Witness ==
    /\ FrameWritten
    /\ Len(data) >= 1
    /\ data[1] = 242
    /\ address = 1

\* C2 as stated: the length field of a written request frame is the number
\* of bytes from CMT (the fifth byte) through ETX (the last but one).
C2_LengthThroughETX ==
    FrameWritten =>
        LET f == Written
        IN  /\ f[5] = 67
            /\ f[Len(f) - 1] = 3
            /\ Uint16(f[3], f[4]) = (Len(f) - 1) - 5 + 1

\* C2 amended: the length field of a written request frame is the number of
\* bytes from CMT up to, and not including, ETX: CMT, command, parameter and
\* payload.
C2_LengthBeforeETX ==
    FrameWritten =>
        LET f == Written
        IN  /\ f[5] = 67
            /\ f[Len(f) - 1] = 3
            /\ Uint16(f[3], f[4]) = (Len(f) - 1) - 5

C2_Witness ==
    /\ FrameWritten
    /\ Len(data) = 1
    /\ Written[4] = 4

\* C3 as stated: a payload longer than 1021 bytes is refused as too large,
\* one of exactly 1021 bytes is accepted for transmission.
C3_Limit1021 ==
    pc # "idle" =>
        /\ Len(data) > 1021 => pc = "done" /\ err = TooLargeErr
        /\ Len(data) = 1021 => err # TooLargeErr

\* C3 amended: a payload longer than 1015 bytes is refused as too large with
\* nothing written, one of exactly 1015 bytes is accepted for transmission.
C3_Limit1015 ==
    pc # "idle" =>
        /\ Len(data) > 1015 =>
              pc = "done" /\ err = TooLargeErr /\ response = NilResponse /\ ops = <<>>
        /\ Len(data) = 1015 =>
              err # TooLargeErr /\ (pc = "write" \/ FrameWritten)

C3_Witness ==
    /\ Len(data) = 1015
    /\ FrameWritten
    /\ ops[1].ok
    /\ Len(Written) = 1024

\* C4: when the encoded frame, checksum included, is longer than 1024 bytes,
\* request returns an error and no response, and the port is neither written
\* nor read.
C4_TooLargeNotSent ==
    (pc # "idle" /\ Len(b) > 1024) =>
        /\ pc = "done"
        /\ err # NoErr
        /\ response = NilResponse
        /\ ops = <<>>

C4_Witness ==
    /\ pc = "done"
    /\ Len(b) = 1025
    /\ err = TooLargeErr

\* the last call made on the port
LastOp == ops[Len(ops)]

\* exchange has written the ACK byte and the write succeeded, that is,
\* exchange has returned the reply buffer to request
AckSent ==
    /\ Len(ops) >= 1
    /\ LastOp.op = "write"
    /\ LastOp.data = <<6>>
    /\ LastOp.ok

\* positions in the history of the reads that ended an accumulating read
EndsOfRead == {k \in 1..Len(ops) : ops[k].op = "read" /\ ops[k].err = "EOF"}

\* C5: when exchange returns a reply, the calls made on the port are, in this
\* order, one write of the request frame, the reads of the ACK phase, the
\* reads of the reply phase if the reply did not come with the ACK, and, the
\* checksum having been checked, exactly one write of the single byte 0x06;
\* a response is decoded only after that write has succeeded.
C5_ExchangeOrder ==
    /\ (~response.nil \/ (pc = "panic" /\ bccOk # "none")) => AckSent
    /\ (\E k \in 1..Len(ops) : ops[k].op = "write" /\ ops[k].data = <<6>>) =>
          /\ Len(ops) >= 3
          /\ ops[1] = [op |-> "write", data |-> b, ok |-> TRUE]
          /\ \A k \in 2..(Len(ops) - 1) : ops[k].op = "read" /\ ops[k].err # "error"
          /\ ops[Len(ops) - 1].err = "EOF"
          /\ Cardinality(EndsOfRead) = (IF off = 1 THEN 1 ELSE 2)
          /\ LastOp.op = "write" /\ LastOp.data = <<6>>
          /\ bccOk # "none"
          /\ pc \in {"done", "panic"}

C5_Witness ==
    /\ pc = "done"
    /\ AckSent
    /\ ~response.nil
    /\ off = 0
    /\ Len(ops) >= 6

\* the step in which the accumulating read of the ACK phase ends without a
\* transport error and the first byte of the buffer is not 0x06 (no byte at
\* all leaves the 0 the buffer was created with)
AckReadEndsWithoutAck ==
    /\ pc = "read_ack"
    /\ Len(ops') = Len(ops) + 1
    /\ ops'[Len(ops')].op = "read"
    /\ ops'[Len(ops')].err = "EOF"
    /\ (Len(mem') = 0 \/ mem'[1] # 6)

\* C6: when the ACK read ends without a transport error and the first byte
\* is not ACK (nothing received, NAK, or any other byte), the call ends with
\* the error "ACK is absent", which is not the transport's error, and with no
\* response; the port has then seen the one write of the request frame and
\* the reads of that one accumulating read, and sees nothing more.
C6_NoAck ==
    [][ /\ AckReadEndsWithoutAck =>
              /\ pc' = "done"
              /\ err' = [kind |-> "errors.New", msg |-> <<"ACK is absent">>]
              /\ err' # TransportErr
              /\ response' = NilResponse
              /\ ops'[1].op = "write" /\ ops'[1].data = b
              /\ \A k \in 2..Len(ops') : ops'[k].op = "read"
              /\ {k \in 1..Len(ops') : ops'[k].op = "read" /\ ops'[k].err = "EOF"}
                    = {Len(ops')}
        /\ (pc = "done" /\ err.msg = <<"ACK is absent">>) => ops' = ops
      ]_vars

C6_Witness ==
    /\ pc = "done"
    /\ err = NoAckErr
    /\ Len(mem) >= 1
    /\ mem[1] = 21
    /\ Len(ops) = 3

\* the reply as exchange received it: the first len bytes of buf, defined
\* once the checksum has been checked
Rx == BufSlice(mem, off, 0, len)

\* the last received byte of the reply is not the XOR of the bytes before it
BadChecksum ==
    /\ bccOk # "none"
    /\ len >= 1
    /\ Rx[len] # XorAll(SubSeq(Rx, 1, len - 1))

\* byte j of the buffer exchange returned
R(j) == BufAt(mem, off, j)

\* C7: a reply whose last byte is not the XOR of the bytes received before
\* it does not end the exchange: the mismatch is noticed, the ACK byte is
\* still written, and once that write has succeeded the buffer is decoded by
\* request.
C7_BadChecksumGoesOn ==
    BadChecksum =>
        /\ bccOk = "fail"
        /\ pc # "write_ack" =>
              /\ Len(ops) >= 1
              /\ LastOp.op = "write" /\ LastOp.data = <<6>>
              /\ LastOp.ok =>
                    \/ pc = "panic"
                    \/ /\ pc = "done"
                       /\ ~response.nil
                       /\ response.Type = R(4)
                       /\ response.DataLen = R(2) * 256 + R(3)

C7_Witness ==
    /\ pc = "done"
    /\ BadChecksum
    /\ AckSent
    /\ ~response.nil
    /\ response.ErrorMessage = "Card Jam"

\* C8 as stated: request never returns a response with a nil error decoded
\* from a reply whose last received byte is not the XOR of the bytes received
\* before it.
C8_NoSuccessOnBadChecksum ==
    ~(pc = "done" /\ err = NoErr /\ ~response.nil /\ BadChecksum)

\* request has returned after decoding the buffer exchange gave it
Decoded == pc = "done" /\ AckSent

\* C9: when request returns from a reply whose byte 4 is 0x50, the error is
\* nil, CardStatus is bytes 7..9, the three messages are the table entries of
\* bytes 7, 8 and 9 (0x32, 0x32, 0x30 give "One Card on RF/IC Card Position",
\* "Enough Cards in card box", "Error card bin not full"), and Data is the
\* length-6 bytes from index 10 on, length being bytes 2..3 in big-endian.
C9_PositiveDecoding ==
    (Decoded /\ R(4) = 80) =>
        LET length == R(2) * 256 + R(3)
        IN  /\ err = NoErr
            /\ ~response.nil
            /\ response.CardStatus = <<R(7), R(8), R(9)>>
            /\ response.ST0Message = CRT571CardStatus("ST0", R(7))
            /\ response.ST1Message = CRT571CardStatus("ST1", R(8))
            /\ response.ST2Message = CRT571CardStatus("ST2", R(9))
            /\ response.CardStatus = <<50, 50, 48>> =>
                  /\ response.ST0Message = "One Card on RF/IC Card Position"
                  /\ response.ST1Message = "Enough Cards in card box"
                  /\ response.ST2Message = "Error card bin not full"
            /\ Len(response.Data) = length - 6
            /\ \A j \in 1..(length - 6) : response.Data[j] = R(10 + j - 1)

C9_Witness ==
    /\ Decoded
    /\ R(4) = 80
    /\ response.CardStatus = <<50, 50, 48>>
    /\ response.Data = <<65, 66>>
    /\ off = 1

\* the received reply is STX ADDR LEN(2) PMT ST0 ST1 ST2 DATA(LEN-6) ETX BCC
BareLayout ==
    /\ bccOk # "none"
    /\ len >= 10
    /\ Rx[1] = 242
    /\ Rx[5] = 80
    /\ Rx[3] * 256 + Rx[4] >= 6
    /\ len = 8 + (Rx[3] * 256 + Rx[4] - 6) + 2
    /\ Rx[len - 1] = 3
    /\ Rx[len] = XorAll(SubSeq(Rx, 1, len - 1))

\* the received reply is
\* STX ADDR LEN(2) PMT CM PM ST0 ST1 ST2 DATA(LEN-6) ETX BCC
EchoLayout ==
    /\ bccOk # "none"
    /\ len >= 12
    /\ Rx[1] = 242
    /\ Rx[5] = 80
    /\ Rx[3] * 256 + Rx[4] >= 6
    /\ len = 10 + (Rx[3] * 256 + Rx[4] - 6) + 2
    /\ Rx[len - 1] = 3
    /\ Rx[len] = XorAll(SubSeq(Rx, 1, len - 1))

\* C10 as stated: from a positive reply laid out as STX ADDR LEN(2) PMT ST0
\* ST1 ST2 DATA(LEN-6) ETX BCC request returns that frame's ST0, ST1, ST2 as
\* the status bytes and its DATA field as the payload.
C10_BareLayoutDecoded ==
    (Decoded /\ BareLayout) =>
        /\ ~response.nil
        /\ response.CardStatus = <<Rx[6], Rx[7], Rx[8]>>
        /\ response.Data = SubSeq(Rx, 9, len - 2)

\* C10 amended: from a positive reply laid out as STX ADDR LEN(2) PMT CM PM
\* ST0 ST1 ST2 DATA(LEN-6) ETX BCC, two bytes standing between the type byte
\* and ST0, request returns that frame's ST0, ST1, ST2 as the status bytes
\* and its DATA field as the payload.
C10_EchoLayoutDecoded ==
    (AckSent /\ EchoLayout) =>
        /\ pc = "done"
        /\ ~response.nil
        /\ err = NoErr
        /\ response.CardStatus = <<Rx[8], Rx[9], Rx[10]>>
        /\ response.Data = SubSeq(Rx, 11, len - 2)

C10_Witness ==
    /\ Decoded
    /\ EchoLayout
    /\ response.CardStatus = <<48, 49, 49>>
    /\ response.Data = <<65>>
    /\ off = 0

\* C11: when request returns from a reply whose byte 4 is 0x45 or 0x4E, the
\* error is not nil and the response it comes with has bytes 6..7 of the reply
\* as ErrorCode and, as Data, the length-5 bytes from index 9 on, length being
\* bytes 2..3 in big-endian.
C11_NegativeDecoding ==
    (Decoded /\ R(4) \in {69, 78}) =>
        LET length == R(2) * 256 + R(3)
        IN  /\ err # NoErr
            /\ err.kind = "errors.New"
            /\ ~response.nil
            /\ response.Type = R(4)
            /\ response.ErrorCode = <<R(6), R(7)>>
            /\ Len(response.Data) = length - 5
            /\ \A j \in 1..(length - 5) : response.Data[j] = R(9 + j - 1)

C11_Witness ==
    /\ Decoded
    /\ R(4) = 78
    /\ err # NoErr
    /\ response.ErrorCode = <<49, 48>>
    /\ response.Data = <<65, 66>>

\* the reply is of a negative type and its length field keeps the slice
\* expressions of the negative case inside the buffer
NegativeInBounds ==
    /\ R(4) \in {69, 78}
    /\ R(2) * 256 + R(3) >= 5
    /\ 9 + (R(2) * 256 + R(3)) - 5 <= BufLen(off)

\* C12: for a negative reply the message of the failure is the Error Table
\* entry of the two-character code in bytes 6..7 ("10" gives "Card Jam") and
\* the empty string when the table has no such code; in both cases request
\* returns, with an error that is not nil and carries that message.
C12_ErrorMessage ==
    (AckSent /\ NegativeInBounds) =>
        /\ pc = "done"
        /\ ~response.nil
        /\ response.ErrorMessage = CRT571Errors(<<R(6), R(7)>>)
        /\ (<<R(6), R(7)>> = <<49, 48>>) => response.ErrorMessage = "Card Jam"
        /\ (<<R(6), R(7)>> = <<57, 57>>) => response.ErrorMessage = ""
        /\ err # NoErr
        /\ err = [kind |-> "errors.New", msg |-> <<response.ErrorMessage>>]

\* a code the table does not have: the message is empty, the error is not nil
C12_Witness ==
    /\ Decoded
    /\ NegativeInBounds
    /\ response.ErrorCode = <<57, 57>>
    /\ response.ErrorMessage = ""
    /\ err # NoErr

\* the two hexadecimal digits of a byte, the leading zero left out
HexOf(n) ==
    LET d(k) == IF k < 10 THEN <<"0", "1", "2", "3", "4", "5", "6", "7", "8", "9">>[k + 1]
                ELSE <<"a", "b", "c", "d", "e", "f">>[k - 9]
    IN  IF n < 16 THEN <<d(n)>> ELSE <<d(n \div 16), d(n % 16)>>

\* C13: for every reply of at least 5 received bytes whose byte 4 is none of
\* 0x50, 0x45, 0x4E, whatever its length field says, request returns (no
\* slice or index goes out of bounds) with an error that is not nil, is the
\* unknown-response-type error and shows that byte.
C13_UnknownType ==
    (AckSent /\ len >= 5 /\ R(4) \notin {80, 69, 78}) =>
        /\ pc = "done"
        /\ err # NoErr
        /\ err.kind = "errors.New"
        /\ err.msg = <<"[ERROR] Unknow data response status [">>
                         \o HexOf(R(4)) \o <<"]">>
        /\ ~response.nil
        /\ response.Type = R(4)

\* a reply of type 0x43 whose length field points far beyond the buffer
C13_Witness ==
    /\ Decoded
    /\ len >= 5
    /\ R(4) = 67
    /\ R(2) * 256 + R(3) = 2000
    /\ err.msg = <<"[ERROR] Unknow data response status [", "4", "3", "]">>

\* the received reply is shorter than its type and length field imply: the
\* length is below the fixed part of the body (6 positive, 5 negative) or the
\* frame of length + 6 bytes is longer than what was received
ShortReply ==
    LET length == R(2) * 256 + R(3)
    IN  \/ R(4) = 80 /\ (length < 6 \/ length + 6 > len)
        \/ R(4) \in {69, 78} /\ (length < 5 \/ length + 6 > len)

\* C14 as stated: a reply shorter than the offsets implied by its length
\* field and type makes request return a failure to the caller; no slice or
\* index goes out of bounds.
C14_ShortReplyIsFailure ==
    (AckSent /\ ShortReply) => (pc = "done" /\ err # NoErr)

\* the device had more to deliver than the buffer of exchange holds: read
\* has filled the buffer and bytes are still waiting
Overlong ==
    /\ i = CRT571_BUFFER_MAX_LENGTH
    /\ wire # <<>>

\* C15 as stated: when the device delivers more than 1024 bytes, the call
\* ends with a failure returned to the caller; the reply is not silently cut
\* off.
C15_OverlongIsFailure ==
    (Overlong /\ pc \in {"done", "panic"}) => (pc = "done" /\ err # NoErr)

\* C16 as stated: Command, Initialization and StatusRequest return to the
\* application the failure of the request they made, and return no error only
\* when that request succeeded.
C16_FacadeReturnsFailure ==
    (ret.returned /\ caller \in {"Command"} \cup Part001) => ret.err = err

\* a call has written its frame and request has not yet returned or failed
InExchange(p) == p \in {"read_ack", "read_reply", "write_ack"}

\* C17 as stated: when two callers invoke Command on the same service, the
\* second exchange does not write its frame before the first has reached its
\* end; the port calls of the two exchanges do not interleave.
C17_OneExchangeAtATime ==
    ~(InExchange(pc) /\ InExchange(other.pc))

\* positions in the history of the writes of the request frame and of the
\* ACK byte
FrameWrites ==
    {k \in 1..Len(ops) : ops[k].op = "write" /\ ops[k].data = b}

AckWrites ==
    {k \in 1..Len(ops) : ops[k].op = "write" /\ ops[k].data = <<6>>}

\* C18: in one call of request the frame is written to the port at most once
\* and the ACK byte at most once, and nothing else is written; no failure
\* (write error, read error, missing ACK, checksum mismatch, error of the
\* decoding) is followed by another write of the frame.
C18_NoResend ==
    /\ Cardinality(FrameWrites) <= 1
    /\ Cardinality(AckWrites) <= 1
    /\ \A k \in 1..Len(ops) :
          ops[k].op = "write" => k \in FrameWrites \cup AckWrites
    /\ FrameWrites \subseteq {1}
    /\ (pc = "done" /\ err # NoErr) =>
          \A k \in 2..Len(ops) : ops[k].op = "write" => ops[k].data = <<6>>

\* a call that failed for want of an ACK after reading twice: one write
C18_Witness ==
    /\ pc = "done"
    /\ err = NoAckErr
    /\ Len(ops) >= 3
    /\ Cardinality(FrameWrites) = 1
    /\ AckWrites = {}

\* C19: for every byte sequence B, bccCalc of B with bccCalc(B) appended is
\* 0, and bccCheck(bccCalc(B), B) is true; bccCalc(B) is the XOR of the bytes
\* of B.
C19_SelfInverse ==
    calc.done =>
        /\ calc.whole = 0
        /\ calc.check
        /\ calc.bcc = XorAll(calc.of)

C19_Witness ==
    /\ calc.done
    /\ calc.of = <<255, 1, 128>>
    /\ calc.bcc = 126
    /\ calc.whole = 0
    /\ calc.check

\* C20: with address 0x00, request(cm = 0x31, pm = 0x30, no payload) writes
\* exactly the 9 bytes F2 00 00 03 43 31 30 03 B0 to the port, the last being
\* the XOR of the 8 before it.
C20_StatusRequestFrame ==
    (FrameWritten /\ address = 0 /\ cm = 49 /\ pm = 48 /\ data = <<>>) =>
        /\ Written = <<242, 0, 0, 3, 67, 49, 48, 3, 176>>
        /\ Written[9] = XorAll(SubSeq(Written, 1, 8))
        /\ \A k \in 2..Len(ops) : ops[k].op = "write" => ops[k].data = <<6>>

C20_Witness ==
    /\ FrameWritten
    /\ ops[1].ok
    /\ address = 0 /\ cm = 49 /\ pm = 48 /\ data = <<>>
    /\ Len(Written) = 9
    /\ Written[9] = 176
    /\ caller = "request"

\* position in the history of the read that ended the ACK phase
AckEnd == CHOOSE k \in EndsOfRead : \A j \in EndsOfRead : k <= j

\* the bytes the port handed over in the reads from position lo to hi
RECURSIVE Delivered(_, _)
Delivered(lo, hi) ==
    IF hi < lo THEN <<>>
    ELSE Delivered(lo, hi - 1)
             \o (IF ops[hi].op = "read" THEN ops[hi].data ELSE <<>>)

\* the bytes of the ACK phase, and those of the reads that followed it
AckBytes == Delivered(2, AckEnd)

ReplyBytes == Delivered(AckEnd + 1, Len(ops))

\* the ACK phase has ended and its first byte is the ACK
AckRecognised ==
    /\ EndsOfRead # {}
    /\ AckBytes # <<>>
    /\ AckBytes[1] = 6

\* C21 as stated: once the ACK is recognised, if the ACK phase delivered more
\* than one byte no further read is made and the buffer given to the decoder
\* begins with the byte that followed the ACK; if it delivered exactly one
\* byte, exactly one more accumulating read is made and the buffer begins with
\* its first byte.
C21_CoalescedReply ==
    AckRecognised =>
        /\ Len(AckBytes) > 1 =>
              /\ \A k \in (AckEnd + 1)..Len(ops) : ops[k].op # "read"
              /\ AckSent => R(0) = AckBytes[2]
        /\ Len(AckBytes) = 1 =>
              /\ Cardinality(EndsOfRead) <= 2
              /\ AckSent =>
                    /\ Cardinality(EndsOfRead) = 2
                    /\ ReplyBytes # <<>>
                    /\ R(0) = ReplyBytes[1]

\* an accumulating read has just ended with io.EOF; the count it returned is
\* len, with the byte cut off the front of buf added back
ReadEnded == Len(ops) >= 2 /\ LastOp.op = "read" /\ LastOp.err = "EOF"

ReadCount == len + off

\* C23 as stated: read returns the number of all the bytes the port delivered
\* before and with io.EOF, and buf[0:count] holds them in the order of their
\* arrival; when a call of port.Read returns another error, the call ends with
\* that error.
C23_ReadCountsAll ==
    /\ ReadEnded =>
          LET got == IF Cardinality(EndsOfRead) = 1 THEN AckBytes
                     ELSE ReplyBytes
          IN  /\ ReadCount = Len(got)
              /\ BufSlice(mem, 0, 0, ReadCount) = got
    /\ (Len(ops) >= 2 /\ LastOp.op = "read" /\ LastOp.err = "error") =>
          /\ pc = "done"
          /\ response.nil
          /\ err = TransportErr

\* the reply as exchange holds it has the size its own length field implies
FullFrame ==
    /\ len >= 4
    /\ len = R(2) * 256 + R(3) + 6

\* C22 as stated: exchange checks the checksum and writes the ACK byte only
\* when the reply bytes it holds are a whole frame, length + 6 bytes; a reply
\* of which only the beginning came with the ACK is not acknowledged.
C22_AckOnlyFullFrame ==
    (bccOk # "none" \/ AckWrites # {}) => FullFrame

\* the ACK came alone, the timeout ended the ACK phase, and the read of the
\* reply ended on a timeout without a single byte
AckThenSilence ==
    /\ Cardinality(EndsOfRead) = 2
    /\ LastOp.op = "read" /\ LastOp.err = "EOF"
    /\ AckBytes = <<6>>
    /\ ops[AckEnd].n = 0
    /\ ReplyBytes = <<>>

\* C24 as stated: when the ACK arrives alone and the read of the reply ends
\* with no byte received, exchange returns a failure to its caller; it does
\* not index before the start of the buffer.
C24_SilenceIsFailure ==
    AckThenSilence => (pc = "done" /\ err # NoErr /\ response.nil)

\* the call of request has come to its end, by a return or by a panic
Terminated == pc \in {"done", "panic"}

\* the frame was written, the ACK was recognised, no read failed, the ACK
\* byte was written, and the reply has the positive marker at index 4
AllWentWell ==
    /\ FrameWritten /\ ops[1].ok
    /\ \A k \in 1..Len(ops) : ops[k].op = "read" => ops[k].err # "error"
    /\ AckRecognised
    /\ AckSent
    /\ R(4) = 80

\* C25 as stated: request ends by returning a nil error exactly when the
\* write of the frame succeeded, the ACK was read, the reply was read without
\* a transport error, the write of the ACK succeeded and byte 4 of the reply
\* is 0x50; it ends with an error that is not nil in every other case.
C25_NilErrorIff ==
    Terminated =>
        /\ (pc = "done" /\ err = NoErr) <=> AllWentWell
        /\ ~AllWentWell => (pc = "done" /\ err # NoErr)

\* C26 as stated: the status bytes, the error code and the payload of a
\* returned response lie within the len bytes received as the reply; no byte
\* at or behind index len of the buffer (zero fill, or what an earlier read
\* left there) is given out.
C26_OnlyReceivedBytes ==
    (Decoded /\ ~response.nil) =>
        /\ R(4) = 80 =>
              /\ 10 <= len
              /\ 10 + Len(response.Data) <= len
        /\ R(4) \in {69, 78} =>
              /\ 8 <= len
              /\ 9 + Len(response.Data) <= len

\* the last call on the port was the write of the ACK byte, and it failed
AckWriteFailed ==
    /\ Len(ops) >= 1
    /\ LastOp.op = "write"
    /\ LastOp.data = <<6>>
    /\ ~LastOp.ok

\* C27: when the write of the ACK byte fails, whatever reply was received,
\* request returns a nil response and the transport error; the reply is not
\* decoded.
C27_AckWriteFails ==
    AckWriteFailed =>
        /\ pc = "done"
        /\ response = NilResponse
        /\ err = TransportErr
        /\ ret = [returned |-> TRUE, res |-> NilResponse, err |-> TransportErr]

\* a whole positive reply with a good checksum had been received
C27_Witness ==
    /\ AckWriteFailed
    /\ FullFrame
    /\ bccOk = "ok"
    /\ R(4) = 80
    /\ pc = "done"
    /\ response.nil

\* C28 as stated: a response that request returns with the error of a negative
\* reply, type 0x45 or 0x4E, is rendered by String as the error response text
\* with its message, code and data; "Unexpected response type" is the text
\* only of a response whose type is none of 0x50, 0x45, 0x4E.
C28_StringOfFailure ==
    (Decoded /\ ~response.nil) =>
        /\ response.Type \in {69, 78} =>
              /\ String(response).format
                     = "CRT-571 error response: %s(%s), data:[%s]"
              /\ String(response).texts = <<response.ErrorMessage>>
              /\ String(response).bytes = <<response.ErrorCode, response.Data>>
        /\ String(response).format = "Unexpected response type" =>
              response.Type \notin {80, 69, 78}

\* how a result of the decoding is classified by its error
Class(d) ==
    IF d.err = NoErr THEN "success"
    ELSE IF d.err.msg[1] = "[ERROR] Unknow data response status ["
         THEN "unknown type"
         ELSE "device failure"

\* the status bytes and the payload of a result, nothing for a nil result
StatusOf(d) == IF d.response.nil THEN <<>> ELSE d.response.CardStatus

PayloadOf(d) == IF d.response.nil THEN <<>> ELSE d.response.Data

\* C29 as stated: on the buffer exchange returns, request of part_000 and
\* request of part_001 end alike, classify the reply alike (success, device
\* failure, unknown type) and return the same status bytes and the same
\* payload; a reply of type 0x4E is a device failure for both.
C29_VariantsAgree ==
    AckSent =>
        LET new == decode(mem, off)
            old == decode001(mem, off)
        IN  /\ new.panic = old.panic
            /\ ~new.panic =>
                  /\ Class(new) = Class(old)
                  /\ StatusOf(new) = StatusOf(old)
                  /\ PayloadOf(new) = PayloadOf(old)
                  /\ R(4) = 78 => Class(old) = "device failure"

\* C30 as stated: for the address, command, parameter and payload of a call,
\* MakeRequest of crt571.go builds the frame request of part_000 builds: the
\* length field is len(payload) + 3, ETX is the last byte before the checksum,
\* and the checksum is the XOR of all the bytes before it.
C30_SameFrame ==
    pc # "idle" =>
        LET f == MakeRequestFrame(address, cm, pm, data)
            n == Len(f)
        IN  /\ f = b
            /\ f[3] * 256 + f[4] = Len(data) + 3
            /\ f[n - 1] = 3
            /\ f[n] = XorAll(SubSeq(f, 1, n - 1))

====
